---- MODULE Spec2Model ----
(***************************************************************************)
(* Model of src/storm_simulation.py: the Storm engine, its phase state     *)
(* machine (BREWING, THRESHOLD, FULL_STORM, END) and the FULL_STORM        *)
(* sub-stage machine (impact, downpour, frenzy, chaos, silence).           *)
(*                                                                         *)
(* Every float of the program is a fixed-point integer in hundredths: 20.0 *)
(* is 2000, 0.05 is 5, 1012.0 is 101200.  All constants and increments of  *)
(* the program are multiples of 0.01, so the updates are exact at this     *)
(* resolution; binary rounding of the doubles (1e-13 and below) is not     *)
(* represented.  thunder_delay, the one quotient, is kept as the exact     *)
(* fraction num/den.  lightning_events and iteration are plain integers.   *)
(***************************************************************************)
EXTENDS Integers, Sequences, FiniteSets, TLC

VARIABLES state, full_stage, iteration, charge, lightning_distance, s, drawn

\* drawn is the position in the stream of the random module: the number of
\* values taken from it since random.seed(0)
vars == <<state, full_stage, iteration, charge, lightning_distance, s, drawn>>

(* ------------------------------ bounds -------------------------------- *)

\* number of sample points taken from each call of random.random()
NDraw == 3

\* cap on the number of dispatched loop iterations
MaxIter == 150

(* ---------------------- Storm.constants (hundredths) ------------------- *)

brew_target_temp == 1200
brew_temp_drop == 30
brew_pressure_drop == 50
brew_shadow_gain == 5
brew_wind_gain == 20
brew_humidity_gain == 150
petrichor_humidity == 6800
petrichor_soil == 1800
brew_pressure_threshold == 99000
brew_wind_instability_threshold == 500
brew_shadow_threshold == 90
threshold_lightning_charge_gain == 800
threshold_lightning_threshold == 2400
threshold_wind_gain == 110
threshold_humidity_gain == 220
threshold_saturation == 9800
threshold_turbulent_wind == 1800
threshold_min_lightning == 4
threshold_rain_distance_drop == 170
full_vertical_burst == 3500
full_downpour_intensity == 6000
full_frenzy_frequency == 1200
full_turbulence_peak == 4000
full_particle_density_peak == 8500
silence_decay == 450
sound_speed == 34

(* ----------------------------- helpers -------------------------------- *)

max(a, b) == IF a >= b THEN a ELSE b

min(a, b) == IF a <= b THEN a ELSE b

\* math.sin(i) in hundredths, rounded to nearest, for i = 0 .. 199
SinTable ==
    << 0, 84, 91, 14, -76, -96, -28, 66, 99, 41, -54, -100, -54, 42, 99, 65, -29, -96, -75, 15,
       91, 84, -1, -85, -91, -13, 76, 96, 27, -66, -99, -40, 55, 100, 53, -43, -99, -64, 30, 96,
       75, -16, -92, -83, 2, 85, 90, 12, -77, -95, -26, 67, 99, 40, -56, -100, -52, 44, 99, 64,
       -30, -97, -74, 17, 92, 83, -3, -86, -90, -11, 77, 95, 25, -68, -99, -39, 57, 100, 51, -44,
       -99, -63, 31, 97, 73, -18, -92, -82, 4, 86, 89, 11, -78, -95, -25, 68, 98, 38, -57, -100,
       -51, 45, 99, 62, -32, -97, -73, 18, 93, 82, -4, -86, -89, -10, 78, 95, 24, -69, -98, -37,
       58, 100, 50, -46, -100, -62, 33, 97, 72, -19, -93, -81, 5, 87, 89, 9, -79, -94, -23, 70,
       98, 36, -59, -100, -49, 47, 100, 61, -34, -97, -71, 20, 93, 81, -6, -87, -88, -8, 80, 94,
       22, -70, -98, -35, 59, 100, 48, -48, -100, -60, 35, 98, 71, -21, -94, -80, 7, 88, 88, 7,
       -80, -94, -21, 71, 98, 35, -60, -100, -48, 48, 100, 59, -35, -98, -70, 22, 94, 80, -8, -88 >>

sin(i) == SinTable[i + 1]

\* random.random(): a float in [0, 1); NDraw sample points, 0.00 .. 0.99
random == { (99 * k) \div (NDraw - 1) : k \in 0..(NDraw - 1) }

\* consume leaving the stream where it is (the previous value is used again)
consume_none(n) == n

\* one call of random.random(), directly or inside random.uniform, moves the
\* stream on by one value
consume(n) == n + 1

\* random.uniform(a, b) = a + (b - a) * random.random(), for the draw r
uniform(a, b, r) == a + ((b - a) * r) \div 100

\* a fraction num/den compared with a value in hundredths
FracLeq(f, v) == f.num * 100 <= v * f.den

(* ------------------------------ Init ---------------------------------- *)

Init ==
    /\ state = "BREWING"
    /\ full_stage = "impact"
    /\ iteration = 0
    /\ charge = 0
    /\ lightning_distance = 1800
    /\ drawn = 0
    /\ s = [ temperature |-> 2000,
             pressure |-> 101200,
             wind_speed |-> 0,
             wind_direction |-> 0,
             wind_instability |-> 0,
             humidity |-> 4500,
             soil_temperature |-> 2000,
             shadow_density |-> 10,
             petrichor_detected |-> FALSE,
             lightning_events |-> 0,
             thunder_delay |-> [num |-> 0, den |-> 1],
             rain_sound_detected |-> FALSE,
             rain_intensity |-> 0,
             downdraft_force |-> 0,
             lightning_frequency |-> 0,
             turbulence |-> 0,
             rain_particle_density |-> 0 ]

(* ----------------------------- BREWING -------------------------------- *)

\* lines 110-112: the petrichor latch
petrichor_update(pet, humidity, soil) ==
    IF ~pet
    THEN (IF humidity >= petrichor_humidity /\ soil <= petrichor_soil
          THEN TRUE ELSE pet)
    ELSE pet

\* brewing_humidity without the cap at 100
brewing_humidity_noclamp(h) == h + brew_humidity_gain

\* line 107: humidity rises, capped at 100
brewing_humidity(h) == min(10000, h + brew_humidity_gain)

\* brewing_temperature with the clamp turned round (min for max)
brewing_temperature_min(t) == min(brew_target_temp, t - brew_temp_drop)

\* brewing_temperature without the floor at the brew target
brewing_temperature_nofloor(t) == t - brew_temp_drop

\* line 102: temperature decays, floored at the brew target
brewing_temperature(t) == max(brew_target_temp, t - brew_temp_drop)

\* lines 102-112: the update of one BREWING step, i = self.iteration
brewing_update(st, i) ==
    LET humidity2 == brewing_humidity(st.humidity)
        soil2 == max(1000, st.soil_temperature - 10)
    IN [st EXCEPT
          !.temperature = brewing_temperature(st.temperature),
          !.pressure = max(brew_pressure_threshold, st.pressure - brew_pressure_drop),
          !.wind_instability = st.wind_instability + brew_wind_gain,
          !.wind_speed = min(st.wind_speed + brew_wind_gain, threshold_turbulent_wind),
          !.wind_direction = (st.wind_direction + 700 + sin(i)) % 36000,
          !.humidity = humidity2,
          !.soil_temperature = soil2,
          !.shadow_density = min(100, st.shadow_density + brew_shadow_gain),
          !.petrichor_detected = petrichor_update(st.petrichor_detected, humidity2, soil2)]

\* brewing_complete without the pressure condition
brewing_complete_nopressure(st) ==
    /\ st.temperature <= brew_target_temp
    /\ st.wind_instability >= brew_wind_instability_threshold
    /\ st.shadow_density >= brew_shadow_threshold
    /\ st.petrichor_detected

\* lines 116-123
brewing_complete(st) ==
    /\ st.temperature <= brew_target_temp
    /\ st.pressure <= brew_pressure_threshold
    /\ st.wind_instability >= brew_wind_instability_threshold
    /\ st.shadow_density >= brew_shadow_threshold
    /\ st.petrichor_detected

brewing_phase ==
    /\ state = "BREWING"
    /\ iteration < MaxIter
    /\ LET s2 == brewing_update(s, iteration)
       IN /\ s' = s2
          /\ state' = IF brewing_complete(s2) THEN "THRESHOLD" ELSE state
    /\ iteration' = iteration + 1
    /\ UNCHANGED <<full_stage, charge, lightning_distance, drawn>>

(* ---------------------------- THRESHOLD ------------------------------- *)

\* discharge_events as a per-step flag instead of a running count
discharge_events_flag(events, ch) ==
    IF ch >= threshold_lightning_threshold THEN 1 ELSE 0

\* lines 127-128: a discharge adds one lightning event
discharge_events(events, ch) ==
    IF ch >= threshold_lightning_threshold THEN events + 1 ELSE events

\* discharge_charge emptying the accumulator
discharge_charge_full(ch) ==
    IF ch >= threshold_lightning_threshold THEN 0 ELSE ch

\* discharge_charge resetting the accumulator to 0.3 * threshold
discharge_charge_reset30(ch) ==
    IF ch >= threshold_lightning_threshold
    THEN (threshold_lightning_threshold * 30) \div 100
    ELSE ch

\* lines 127-129: a discharge removes 0.7 * threshold from the accumulator
discharge_charge(ch) ==
    IF ch >= threshold_lightning_threshold
    THEN ch - (threshold_lightning_threshold * 70) \div 100
    ELSE ch

\* rain_sound_update toggling the flag instead of setting it
rain_sound_update_toggle(rs, dist) == IF dist <= 800 THEN ~rs ELSE rs

\* lines 135-136: the rain-sound latch
rain_sound_update(rs, dist) == IF dist <= 800 THEN TRUE ELSE rs

\* thunder multiplying by the sound speed instead of dividing by it
thunder_times(dist) == [num |-> dist * sound_speed, den |-> 10000]

\* line 134: thunder_delay = lightning_distance / sound_speed, as a fraction
thunder(dist) == [num |-> dist, den |-> sound_speed]

\* lines 126-137: the update of one THRESHOLD step on the state vector;
\* ch is the charge after the gain, dist the new lightning_distance,
\* r the draw of random.random()
threshold_update(st, ch, dist, r) ==
    [st EXCEPT
       !.lightning_events = discharge_events(st.lightning_events, ch),
       !.wind_speed = st.wind_speed + threshold_wind_gain,
       !.wind_direction = (st.wind_direction + 2300 + r) % 36000,
       !.wind_instability = st.wind_instability + 80,
       !.thunder_delay = thunder(dist),
       !.rain_sound_detected = rain_sound_update(st.rain_sound_detected, dist),
       !.humidity = min(10000, st.humidity + threshold_humidity_gain)]

\* threshold_complete without the minimum count of lightning events
threshold_complete_noevents(st) ==
    /\ FracLeq(st.thunder_delay, 2000)
    /\ st.wind_speed >= threshold_turbulent_wind
    /\ st.rain_sound_detected
    /\ st.humidity >= threshold_saturation

\* lines 141-148
threshold_complete(st) ==
    /\ st.lightning_events >= threshold_min_lightning
    /\ FracLeq(st.thunder_delay, 2000)
    /\ st.wind_speed >= threshold_turbulent_wind
    /\ st.rain_sound_detected
    /\ st.humidity >= threshold_saturation

threshold_phase ==
    /\ state = "THRESHOLD"
    /\ iteration < MaxIter
    /\ \E r \in random :
         LET ch == charge + threshold_lightning_charge_gain
             dist == max(100, lightning_distance - threshold_rain_distance_drop)
             s2 == threshold_update(s, ch, dist, r)
         IN /\ charge' = discharge_charge(ch)
            /\ lightning_distance' = dist
            /\ s' = s2
            /\ state' = IF threshold_complete(s2) THEN "FULL_STORM" ELSE state
    /\ iteration' = iteration + 1
    /\ drawn' = consume(drawn)
    /\ UNCHANGED full_stage

(* ---------------------------- FULL_STORM ------------------------------ *)

\* advance falling back to the first sub-stage when the condition fails
advance_reset(cond, stage, nxt) == IF cond THEN nxt ELSE "impact"

\* "if <condition>: self.full_stage = <nxt>" (lines 155-156, 162-163,
\* 169-170, 176-177)
advance(cond, stage, nxt) == IF cond THEN nxt ELSE stage

\* impact_update also lowering the pressure
impact_update_pressure(st) ==
    [st EXCEPT
       !.rain_intensity = st.rain_intensity + full_vertical_burst,
       !.temperature = max(500, st.temperature - 180),
       !.downdraft_force = st.downdraft_force + 600,
       !.pressure = st.pressure - brew_pressure_drop]

\* lines 152-154
impact_update(st) ==
    [st EXCEPT
       !.rain_intensity = st.rain_intensity + full_vertical_burst,
       !.temperature = max(500, st.temperature - 180),
       !.downdraft_force = st.downdraft_force + 600]

\* impact_advance with a strict comparison
impact_advance_strict(st) == st.rain_intensity > full_vertical_burst

\* line 155
impact_advance(st) == st.rain_intensity >= full_vertical_burst

\* lines 158-161, r the draw of random.random()
downpour_update(st, r) ==
    [st EXCEPT
       !.rain_intensity = min(full_downpour_intensity, st.rain_intensity + 500),
       !.lightning_frequency = max(st.lightning_frequency, 400 + r),
       !.wind_speed = min(4000, st.wind_speed + 200),
       !.turbulence = st.turbulence + 350]

\* line 162
downpour_advance(st) ==
    st.rain_intensity >= full_downpour_intensity /\ st.turbulence >= 1000

\* frenzy_frequency without the clamp at the frenzy cap
frenzy_frequency_noclamp(lf, r) == lf + uniform(150, 300, r)

\* line 165: the frenzy rise of lightning_frequency, clamped at the cap
frenzy_frequency(lf, r) ==
    min(full_frenzy_frequency, lf + uniform(150, 300, r))

\* lines 165-168, r the draw of random.random() inside random.uniform
frenzy_update(st, r) ==
    [st EXCEPT
       !.lightning_frequency = frenzy_frequency(st.lightning_frequency, r),
       !.turbulence = min(full_turbulence_peak, st.turbulence + 420),
       !.rain_particle_density =
            min(full_particle_density_peak, st.rain_particle_density + 900),
       !.rain_intensity = min(8000, st.rain_intensity + 400)]

\* line 169
frenzy_advance(st) ==
    st.lightning_frequency >= full_frenzy_frequency /\ st.turbulence >= 2400

\* line 175: the chaos floor of lightning_frequency
chaos_frequency(lf, r) == max(lf, 1000 + uniform(0, 250, r))

\* lines 172-175, r the draw of random.random() inside random.uniform
chaos_update(st, r) ==
    [st EXCEPT
       !.turbulence = min(full_turbulence_peak, st.turbulence + 200),
       !.rain_particle_density =
            min(full_particle_density_peak, st.rain_particle_density + 400),
       !.wind_speed = min(5000, st.wind_speed + 150),
       !.lightning_frequency = chaos_frequency(st.lightning_frequency, r)]

\* chaos_advance with strict comparisons
chaos_advance_strict(st) ==
    /\ st.turbulence > full_turbulence_peak
    /\ st.rain_particle_density > full_particle_density_peak

\* line 176
chaos_advance(st) ==
    /\ st.turbulence >= full_turbulence_peak
    /\ st.rain_particle_density >= full_particle_density_peak

\* decay without the floor at zero
decay_nofloor(v) == v - silence_decay

\* lines 179-184: one quantity decays toward zero
decay(v) == max(0, v - silence_decay)

\* lines 179-184
silence_update(st) ==
    [st EXCEPT
       !.rain_intensity = decay(st.rain_intensity),
       !.wind_speed = decay(st.wind_speed),
       !.turbulence = decay(st.turbulence),
       !.lightning_frequency = decay(st.lightning_frequency),
       !.rain_particle_density = decay(st.rain_particle_density),
       !.downdraft_force = decay(st.downdraft_force)]

\* silence_complete with any() for all()
silence_complete_any(st) ==
    \E value \in { st.rain_intensity, st.wind_speed, st.turbulence,
                   st.lightning_frequency, st.rain_particle_density,
                   st.downdraft_force } : value <= 10

\* lines 185-192
silence_complete(st) ==
    \A value \in { st.rain_intensity, st.wind_speed, st.turbulence,
                   st.lightning_frequency, st.rain_particle_density,
                   st.downdraft_force } : value <= 10

\* the part of a FULL_STORM step common to the five branches
full_storm_step(stage) ==
    /\ state = "FULL_STORM"
    /\ full_stage = stage
    /\ iteration < MaxIter
    /\ iteration' = iteration + 1
    /\ UNCHANGED <<charge, lightning_distance>>

\* full_storm_impact running the downpour update in the step that advances
full_storm_impact_fallthrough ==
    /\ full_storm_step("impact")
    /\ \E r \in random :
         LET s2 == impact_update(s)
         IN IF impact_advance(s2)
            THEN /\ s' = downpour_update(s2, r)
                 /\ full_stage' = "downpour"
                 /\ drawn' = consume(drawn)
            ELSE /\ s' = s2
                 /\ full_stage' = full_stage
                 /\ drawn' = drawn
    /\ UNCHANGED state

full_storm_impact ==
    /\ full_storm_step("impact")
    /\ LET s2 == impact_update(s)
       IN /\ s' = s2
          /\ full_stage' = advance(impact_advance(s2), full_stage, "downpour")
    /\ UNCHANGED <<state, drawn>>

full_storm_downpour ==
    /\ full_storm_step("downpour")
    /\ \E r \in random :
         LET s2 == downpour_update(s, r)
         IN /\ s' = s2
            /\ full_stage' = advance(downpour_advance(s2), full_stage, "frenzy")
    /\ drawn' = consume(drawn)
    /\ UNCHANGED state

full_storm_frenzy ==
    /\ full_storm_step("frenzy")
    /\ \E r \in random :
         LET s2 == frenzy_update(s, r)
         IN /\ s' = s2
            /\ full_stage' = advance(frenzy_advance(s2), full_stage, "chaos")
    /\ drawn' = consume(drawn)
    /\ UNCHANGED state

full_storm_chaos ==
    /\ full_storm_step("chaos")
    /\ \E r \in random :
         LET s2 == chaos_update(s, r)
         IN /\ s' = s2
            /\ full_stage' = advance(chaos_advance(s2), full_stage, "silence")
    /\ drawn' = consume(drawn)
    /\ UNCHANGED state

full_storm_silence ==
    /\ full_storm_step("silence")
    /\ LET s2 == silence_update(s)
       IN /\ s' = s2
          /\ state' = IF silence_complete(s2) THEN "END" ELSE state
    /\ UNCHANGED <<full_stage, drawn>>

(* ------------------------------- run ---------------------------------- *)

\* Storm.run: one loop iteration dispatches the handler of the current
\* phase and increments iteration; the loop exits when state is END
Next ==
    \/ brewing_phase
    \/ threshold_phase
    \/ full_storm_impact
    \/ full_storm_downpour
    \/ full_storm_frenzy
    \/ full_storm_chaos
    \/ full_storm_silence

Spec == Init /\ [][Next]_vars

\* the loop of run() keeps iterating while state is not END
FairSpec == Spec /\ WF_vars(Next)

(* ============================== claims =============================== *)

\* C1: under the loop's fairness every run reaches phase END, whatever the
\* random draws are.
C1_Terminates == <>(state = "END")

C1_Witness == state = "END" /\ iteration > 0

PhaseSucc ==
    { <<"BREWING", "THRESHOLD">>, <<"THRESHOLD", "FULL_STORM">>,
      <<"FULL_STORM", "END">> }

StageSucc ==
    { <<"impact", "downpour">>, <<"downpour", "frenzy">>,
      <<"frenzy", "chaos">>, <<"chaos", "silence">> }

\* C2: every step leaves the phase and the sub-stage where they are or moves
\* them to their immediate successor in BREWING -> THRESHOLD -> FULL_STORM
\* -> END and impact -> downpour -> frenzy -> chaos -> silence; END is
\* absorbing.
C2_ForwardOnly ==
    [][ /\ (state' = state \/ <<state, state'>> \in PhaseSucc)
        /\ (full_stage' = full_stage \/ <<full_stage, full_stage'>> \in StageSucc)
        /\ (state = "END" => state' = "END") ]_vars

C2_Witness == state = "END" /\ full_stage = "silence"

\* C3: once petrichor_detected or rain_sound_detected is true, no step sets
\* it back to false.
C3_Latches ==
    [][ /\ (s.petrichor_detected => s'.petrichor_detected)
        /\ (s.rain_sound_detected => s'.rain_sound_detected) ]_vars

C3_Witness ==
    /\ s.petrichor_detected
    /\ s.rain_sound_detected
    /\ state = "FULL_STORM"
    /\ full_stage = "frenzy"

\* C4: lightning_events is never negative and no step decreases it.
C4_EventsMonotone ==
    /\ [](s.lightning_events >= 0)
    /\ [][s'.lightning_events >= s.lightning_events]_vars

C4_Witness == s.lightning_events = 4 /\ state = "FULL_STORM"

\* C5: in every reachable state humidity is in [0,100], shadow_density in
\* [0,1], wind_direction in [0,360), rain_intensity in [0,80],
\* rain_particle_density in [0,85], turbulence in [0,40] and
\* downdraft_force is at least 0.
C5_Clamped ==
    /\ s.humidity >= 0 /\ s.humidity <= 10000
    /\ s.shadow_density >= 0 /\ s.shadow_density <= 100
    /\ s.wind_direction >= 0 /\ s.wind_direction < 36000
    /\ s.rain_intensity >= 0 /\ s.rain_intensity <= 8000
    /\ s.rain_particle_density >= 0 /\ s.rain_particle_density <= 8500
    /\ s.turbulence >= 0 /\ s.turbulence <= 4000
    /\ s.downdraft_force >= 0

C5_Witness ==
    /\ full_stage = "silence"
    /\ s.humidity = 10000
    /\ s.shadow_density = 100
    /\ s.turbulence = 4000
    /\ s.rain_particle_density = 8500
    /\ s.downdraft_force = 600

\* C6 as stated: lightning_frequency is within [0, 12.0] in every reachable
\* state.
C6_Original ==
    s.lightning_frequency >= 0 /\ s.lightning_frequency <= full_frenzy_frequency

\* C6, amended: lightning_frequency is within [0, 12.5] in every reachable
\* state, and within [0, 12.0] as long as the sub-stage is impact, downpour
\* or frenzy; only the chaos floor lifts it above the frenzy cap.
C6_Amended ==
    /\ s.lightning_frequency >= 0
    /\ s.lightning_frequency <= 1250
    /\ (full_stage \in {"impact", "downpour", "frenzy"}
          => s.lightning_frequency <= full_frenzy_frequency)

C6_Witness == full_stage = "chaos" /\ s.lightning_frequency > full_frenzy_frequency

\* C7: after exactly one dispatched step temperature = 19.7, pressure =
\* 1011.5, wind_instability = 0.2, shadow_density = 0.15, humidity = 46.5,
\* soil_temperature = 19.9, petrichor_detected is false and the phase is
\* BREWING.
C7_FirstStep ==
    iteration = 1 =>
        /\ s.temperature = 1970
        /\ s.pressure = 101150
        /\ s.wind_instability = 20
        /\ s.shadow_density = 15
        /\ s.humidity = 4650
        /\ s.soil_temperature = 1990
        /\ ~s.petrichor_detected
        /\ state = "BREWING"

C7_Witness == iteration = 1

\* C8: a step taken in BREWING moves the phase to THRESHOLD exactly when all
\* five completion conditions hold of the updated state; wind_instability is
\* below 5.0 and the phase is BREWING as long as fewer than 25 steps have
\* been dispatched.
C8_BrewingGate ==
    /\ [][ state = "BREWING" =>
             ( state' = "THRESHOLD" <=>
                 /\ s'.temperature <= 1200
                 /\ s'.pressure <= 99000
                 /\ s'.wind_instability >= 500
                 /\ s'.shadow_density >= 90
                 /\ s'.petrichor_detected ) ]_vars
    /\ [](iteration < 25 => (state = "BREWING" /\ s.wind_instability < 500))

\* four of the five conditions hold and the phase has not moved
C8_Witness ==
    /\ state = "BREWING"
    /\ s.temperature <= 1200
    /\ s.pressure > 99000
    /\ s.wind_instability >= 500
    /\ s.shadow_density >= 90
    /\ s.petrichor_detected

AllSilent(st) ==
    /\ st.rain_intensity <= 10
    /\ st.wind_speed <= 10
    /\ st.turbulence <= 10
    /\ st.lightning_frequency <= 10
    /\ st.rain_particle_density <= 10
    /\ st.downdraft_force <= 10

\* C9: whenever the phase is END the six decaying quantities are all at most
\* 0.1, and the step that sets END starts in a state where they are not all
\* at most 0.1.
C9_SilenceAtEnd ==
    /\ [](state = "END" => AllSilent(s))
    /\ [][(state # "END" /\ state' = "END") => ~AllSilent(s)]_vars

C9_Witness == state = "END" /\ AllSilent(s) /\ iteration >= 93

\* C11: a step taken in THRESHOLD moves the phase to FULL_STORM exactly when
\* the updated state has lightning_events >= 4, thunder_delay <= 20.0,
\* wind_speed >= 18.0, rain_sound_detected and humidity >= 98.0; the
\* sub-stage is then impact.
C11_ThresholdGate ==
    [][ state = "THRESHOLD" =>
          /\ ( state' = "FULL_STORM" <=>
                 /\ s'.lightning_events >= 4
                 /\ s'.thunder_delay.num * 100 <= 2000 * s'.thunder_delay.den
                 /\ s'.wind_speed >= 1800
                 /\ s'.rain_sound_detected
                 /\ s'.humidity >= 9800 )
          /\ (state' = "FULL_STORM" => full_stage' = "impact") ]_vars

\* the phase has just moved to FULL_STORM and no FULL_STORM step has run
C11_Witness ==
    /\ state = "FULL_STORM"
    /\ full_stage = "impact"
    /\ s.rain_intensity = 0
    /\ s.lightning_events >= 4

\* C12: a THRESHOLD step adds 8.0 to charge; exactly when the sum has
\* reached 24.0, lightning_events grows by 1 and 16.8 is taken off the
\* charge; the charge left by a discharge is positive, and the charge left
\* by any THRESHOLD step is below 24.0.
C12_Discharge ==
    [][ state = "THRESHOLD" =>
          LET ch == charge + 800
          IN /\ (ch >= 2400 =>
                   /\ s'.lightning_events = s.lightning_events + 1
                   /\ charge' = ch - 1680
                   /\ charge' > 0)
             /\ (ch < 2400 =>
                   /\ s'.lightning_events = s.lightning_events
                   /\ charge' = ch)
             /\ charge' < 2400 ]_vars

\* the second discharge has happened
C12_Witness == state = "THRESHOLD" /\ s.lightning_events = 2 /\ charge = 1440

\* C13 as stated: every discharge leaves 7.2 in the accumulator.
C13_Original ==
    [][ (state = "THRESHOLD" /\ charge + 800 >= 2400) => charge' = 720 ]_vars

\* C13, amended: every discharge leaves the charge reached minus 16.8, which
\* is at least 7.2; it is 7.2 after the first discharge and more after each
\* later one.
C13_Amended ==
    [][ (state = "THRESHOLD" /\ charge + 800 >= 2400) =>
          /\ charge' = charge + 800 - 1680
          /\ charge' >= 720
          /\ (s.lightning_events = 0 => charge' = 720)
          /\ (s.lightning_events > 0 => charge' > 720) ]_vars

\* the third discharge has left 13.6
C13_Witness == s.lightning_events = 3 /\ charge = 1360

\* C14: lightning_distance is at least 1.0 in every state and no step
\* increases it; a THRESHOLD step leaves thunder_delay equal to the new
\* lightning_distance divided by 0.34, and leaves rain_sound_detected true
\* whenever the new lightning_distance is at most 8.0.
C14_Distance ==
    /\ [](lightning_distance >= 100)
    /\ [][lightning_distance' <= lightning_distance]_vars
    /\ [][ state = "THRESHOLD" =>
             /\ s'.thunder_delay.num * 34 = lightning_distance' * s'.thunder_delay.den
             /\ (lightning_distance' <= 800 => s'.rain_sound_detected) ]_vars

\* the THRESHOLD step that first brings the lightning within 8.0
C14_Witness ==
    /\ state = "THRESHOLD"
    /\ lightning_distance = 780
    /\ s.rain_sound_detected
    /\ s.thunder_delay = [num |-> 780, den |-> 34]

\* C15: a FULL_STORM step applies the update of the sub-stage active at its
\* start and of no other, and the sub-stage moves (to its successor) exactly
\* when that sub-stage's advance condition holds of the updated values:
\* impact rain_intensity >= 35; downpour rain_intensity >= 60 and
\* turbulence >= 10; frenzy lightning_frequency >= 12 and turbulence >= 24;
\* chaos turbulence >= 40 and rain_particle_density >= 85; silence never.
C15_OneSubStage ==
    [][ state = "FULL_STORM" =>
          /\ (full_stage = "impact" =>
                /\ s' = impact_update(s)
                /\ (full_stage' # full_stage <=> s'.rain_intensity >= 3500)
                /\ full_stage' \in {"impact", "downpour"})
          /\ (full_stage = "downpour" =>
                /\ \E r \in random : s' = downpour_update(s, r)
                /\ (full_stage' # full_stage <=>
                      (s'.rain_intensity >= 6000 /\ s'.turbulence >= 1000))
                /\ full_stage' \in {"downpour", "frenzy"})
          /\ (full_stage = "frenzy" =>
                /\ \E r \in random : s' = frenzy_update(s, r)
                /\ (full_stage' # full_stage <=>
                      (s'.lightning_frequency >= 1200 /\ s'.turbulence >= 2400))
                /\ full_stage' \in {"frenzy", "chaos"})
          /\ (full_stage = "chaos" =>
                /\ \E r \in random : s' = chaos_update(s, r)
                /\ (full_stage' # full_stage <=>
                      (s'.turbulence >= 4000 /\ s'.rain_particle_density >= 8500))
                /\ full_stage' \in {"chaos", "silence"})
          /\ (full_stage = "silence" =>
                /\ s' = silence_update(s)
                /\ full_stage' = full_stage) ]_vars

\* downpour has just been entered: only the impact update has run
C15_Witness ==
    /\ state = "FULL_STORM"
    /\ full_stage = "downpour"
    /\ s.rain_intensity = 3500
    /\ s.turbulence = 0
    /\ s.lightning_frequency = 0

Drawing ==
    \/ state = "THRESHOLD"
    \/ (state = "FULL_STORM" /\ full_stage \in {"downpour", "frenzy", "chaos"})

\* C16: a step taken in THRESHOLD, downpour, frenzy or chaos takes exactly one
\* value from the random stream and a step taken in BREWING, impact or
\* silence takes none; no value has been taken before THRESHOLD begins, and
\* ten have been taken when FULL_STORM begins.
C16_OneDrawPerStep ==
    /\ [][ /\ (Drawing => drawn' = drawn + 1)
           /\ (~Drawing => drawn' = drawn) ]_vars
    /\ []((state = "BREWING" \/ (state = "THRESHOLD" /\ charge = 0)) => drawn = 0)
    /\ []((state = "FULL_STORM" /\ full_stage = "impact") => drawn = 10)

\* silence is running: draws were taken in THRESHOLD, downpour, frenzy and
\* chaos, and no more are taken
C16_Witness ==
    /\ state = "FULL_STORM"
    /\ full_stage = "silence"
    /\ s.rain_particle_density < 8500
    /\ drawn >= 29

\* C17: no step increases temperature, pressure or soil_temperature;
\* pressure is at least 990.0, soil_temperature at least 10.0 and
\* temperature at least 5.0 in every state, and temperature is at least 12.0
\* in every state of BREWING and THRESHOLD.
C17_Floors ==
    /\ [][ /\ s'.temperature <= s.temperature
           /\ s'.pressure <= s.pressure
           /\ s'.soil_temperature <= s.soil_temperature ]_vars
    /\ [](/\ s.pressure >= 99000
          /\ s.soil_temperature >= 1000
          /\ s.temperature >= 500
          /\ (state \in {"BREWING", "THRESHOLD"} => s.temperature >= 1200))

\* BREWING has held the temperature at its floor and impact has lowered it
C17_Witness ==
    /\ state = "FULL_STORM"
    /\ s.temperature = 1020
    /\ s.pressure = 99000
    /\ s.soil_temperature = 1560

\* C18: the run ends with iteration between 93 and 97; BREWING takes the
\* steps 1..44, THRESHOLD the steps 45..54, impact step 55 and downpour the
\* steps 56..60 whatever the draws are, and the steps that take no draw
\* (BREWING, impact and silence) are 64 in all, so silence takes 19.
C18_StepCount ==
    /\ (state = "BREWING" => iteration <= 43)
    /\ (state = "THRESHOLD" => (iteration >= 44 /\ iteration <= 53))
    /\ ((state = "FULL_STORM" /\ full_stage = "impact") => iteration = 54)
    /\ ((state = "FULL_STORM" /\ full_stage = "downpour") =>
            (iteration >= 55 /\ iteration <= 59))
    /\ ((state = "FULL_STORM" /\ full_stage \in {"frenzy", "chaos", "silence"}) =>
            iteration >= 60)
    /\ (state = "END" =>
            /\ iteration >= 93
            /\ iteration <= 97
            /\ iteration - drawn = 64)

\* the shortest run
C18_Witness == state = "END" /\ iteration = 93

\* the longest run
C18_WitnessLongest == state = "END" /\ iteration = 97

\* C19: wind_speed is at most 18.0 while the phase is BREWING and within
\* [0, 50] in every state.
C19_WindBounded ==
    /\ s.wind_speed >= 0
    /\ s.wind_speed <= 5000
    /\ (state = "BREWING" => s.wind_speed <= threshold_turbulent_wind)

\* chaos has driven the wind to its cap
C19_Witness == full_stage = "chaos" /\ s.wind_speed = 5000

Same(f) == s'[f] = s[f]

\* C20: a BREWING step leaves charge, lightning_distance, lightning_events,
\* thunder_delay, rain_sound_detected, rain_intensity, downdraft_force,
\* lightning_frequency, turbulence, rain_particle_density and the sub-stage
\* as they are; a THRESHOLD step leaves temperature, pressure,
\* soil_temperature, shadow_density, petrichor_detected, rain_intensity,
\* downdraft_force, lightning_frequency, turbulence, rain_particle_density
\* and the sub-stage as they are; a FULL_STORM step leaves charge,
\* lightning_distance, lightning_events, thunder_delay, humidity, pressure,
\* wind_direction and both latches as they are.
C20_Frame ==
    [][ /\ (state = "BREWING" =>
              /\ UNCHANGED <<charge, lightning_distance, full_stage>>
              /\ \A f \in { "lightning_events", "thunder_delay",
                            "rain_sound_detected", "rain_intensity",
                            "downdraft_force", "lightning_frequency",
                            "turbulence", "rain_particle_density" } : Same(f))
        /\ (state = "THRESHOLD" =>
              /\ UNCHANGED full_stage
              /\ \A f \in { "temperature", "pressure", "soil_temperature",
                            "shadow_density", "petrichor_detected",
                            "rain_intensity", "downdraft_force",
                            "lightning_frequency", "turbulence",
                            "rain_particle_density" } : Same(f))
        /\ (state = "FULL_STORM" =>
              /\ UNCHANGED <<charge, lightning_distance>>
              /\ \A f \in { "lightning_events", "thunder_delay", "humidity",
                            "pressure", "wind_direction",
                            "petrichor_detected", "rain_sound_detected" } :
                    Same(f)) ]_vars

\* steps of all three phases have run
C20_Witness ==
    /\ state = "FULL_STORM"
    /\ full_stage = "silence"
    /\ charge = 1280
    /\ s.wind_speed < 5000
    /\ s.lightning_events = 4

====
